---- MODULE Spec2Model ----
(***************************************************************************)
(* libsast ChoiceMatcher (src/libsast/core_matcher/choice_matcher.py).     *)
(*                                                                         *)
(* One ChoiceMatcher object, the caller that invokes scan() on it, and the *)
(* multiprocessing pool scan() creates.  The pattern matcher               *)
(* (choices.find_choices), the file system (stat, read_text) and the       *)
(* machine (os.cpu_count) are the environment: fs says what the file       *)
(* system answers for each file, env what the matcher may answer.          *)
(***************************************************************************)
EXTENDS Integers, Sequences, FiniteSets, TLC

\* ---------------------------------------------------------------- bounds
MaxFiles == 2        \* files in the file system
MaxRules == 2        \* rules of the matcher in SpecRules and SpecFaults
MaxChoiceRules == 1  \* rules of the matcher in Spec and SpecScans
MaxIdx == 2          \* largest index find_choices returns in a list
MaxScans == 2        \* scan() invocations on one matcher in SpecFaults and SpecScans
MaxWorkers == 2      \* largest os.cpu_count()
MaxPoolRules == 12   \* rules of the matcher in SpecPool

\* ------------------------------------------------------ program constants
ChunkSize == 10      \* chunksize=10 of pool.starmap
MaxSizeMB == 5       \* "Skip scanning files greater than 5 MB"

VARIABLES
    options,          \* the dict given to __init__ (choice_extensions, alternative_path)
    scan_rules,       \* self.scan_rules
    exts,             \* self.exts
    alternative_path, \* self.alternative_path (0: not configured, else a file)
    findings,         \* self.findings: rule id -> meta dict
    fs,               \* the file system: file -> [ext, size, io]
    env,              \* what find_choices may answer, and the rule it hangs on
    worker_count,     \* os.cpu_count()
    scansLeft,        \* invocations of scan() the caller still makes
    pc,               \* where scan() is: idle, validate, build, start, pool, returned, failed
    paths,            \* the argument of the current scan()
    choice_args,      \* scan()'s local list of (scan_paths, rule), as scan_paths per rule
    err,              \* the exception scan() ended with ("ok": none)
    ret,              \* what scan() returned
    queue,            \* the pool's task queue: chunks not yet taken
    chunkst,          \* chunk -> queued, running, ok, err
    worker,           \* worker process -> [chunk, pos]
    task,             \* per rule: the frame of choice_matcher(scan_paths, rule)
    obs               \* history of the current invocation, written by no code path

vars == <<options, scan_rules, exts, alternative_path, findings, fs, env,
          worker_count, scansLeft, pc, paths, choice_args, err, ret, queue,
          chunkst, worker, task, obs>>

\* ------------------------------------------------------------ small helpers
SetMin(S) == CHOOSE x \in S : \A y \in S : x <= y
SetMax(S) == CHOOSE x \in S : \A y \in S : x >= y
Injective(s) == \A i, j \in DOMAIN s : i # j => s[i] # s[j]
EmptyMap == [k \in {} |-> 0]

\* ------------------------------------------------------------------ rules
Template == "Target SDK: {}"
Choices == << <<"23", "Marshmallow">>, <<"21", "Lollipop">> >>

\* A rule.  dict: whether it is a dict at all.  A key that is absent or
\* falsy (rule.get(k) is falsy) is 0 for id, "" for the strings, <<>> for
\* choice.  hasmsg: whether the key 'message' is present.
MkRule(d, id, ty, ct, sel, ch, msg, el) ==
    [dict |-> d, id |-> id, type |-> ty, choice_type |-> ct, selection |-> sel,
     choice |-> ch, hasmsg |-> msg, message |-> "desc", else |-> el,
     severity |-> "info"]

NotADict == MkRule(FALSE, 0, "", "", "", <<>>, FALSE, "")

\* Dicts in which a run a..b of the five required keys, in the order id,
\* type, choice_type, selection, choice, is absent or falsy (none when
\* a > b).
KeyShapes ==
    { MkRule(TRUE,
             IF 1 \in a..b THEN 0 ELSE 1,
             IF 2 \in a..b THEN "" ELSE "code",
             IF 3 \in a..b THEN "" ELSE "or",
             IF 4 \in a..b THEN "" ELSE Template,
             IF 5 \in a..b THEN <<>> ELSE Choices,
             TRUE, "") : a \in 1..5, b \in 0..5 }

\* Rules that pass validation.
GoodRule(ty, el) == MkRule(TRUE, 1, ty, "or", Template, Choices, TRUE, el)
NoMessageRule == MkRule(TRUE, 1, "code", "or", Template, Choices, FALSE, "")

RuleShapes == KeyShapes \cup {NotADict, NoMessageRule}
ChoiceShapes == {GoodRule("code", ""), GoodRule("code", "Unknown")}
ScanShapes == {GoodRule(ty, el) : ty \in {"code", "xml"}, el \in {"", "Unknown"}}

\* Rule sequences of length lo..hi over Shapes; a rule's id, when it has
\* one, is its position (ids are unique).
RuleSeqs(Shapes, lo, hi) ==
    UNION { { [i \in 1..k |-> IF s[i].id = 0 THEN s[i] ELSE [s[i] EXCEPT !.id = i]] :
                s \in [1..k -> Shapes] } : k \in lo..hi }

\* ------------------------------------------------------------------ files
Lower(s) ==
    CASE s = ".JAVA" -> ".java"
      [] s = ".Kt" -> ".kt"
      [] OTHER -> s

\* A file: the suffix of its path, the st_size stat() answers, and io:
\* "stat" when stat() raises (size is then never answered), "read" when
\* read_text() raises, "ok" otherwise.
FileKinds ==
    { k \in [ext : {".java", ".JAVA", ".kt"},
             size : {MaxSizeMB * 1000 * 1000, MaxSizeMB * 1000 * 1000 + 1},
             io : {"ok", "stat", "read"}] :
        /\ k.io = "stat" => k.size = MaxSizeMB * 1000 * 1000 /\ k.ext # ".JAVA"
        /\ k.io = "read" => k.ext = ".java" }
PlainFile == [ext |-> ".java", size |-> 1000, io |-> "ok"]
FaultyFiles == {[PlainFile EXCEPT !.io = x] : x \in {"ok", "stat", "read"}}

\* --------------------------------------------------- find_choices results
Tokens == {"a", "b"}
MkMatch(k, t, i) == [kind |-> k, toks |-> t, idxs |-> i]
NoMatch == MkMatch("set", {}, <<>>)
Raises == MkMatch("raise", {}, <<>>)
Hangs == MkMatch("hang", {}, <<>>)
ListMatches == { MkMatch("list", {}, <<i>>) : i \in 0..MaxIdx } \cup {MkMatch("list", {}, <<1, 0>>)}
SetMatches == { MkMatch("set", {t}, <<>>) : t \in Tokens }

\* ------------------------------------------------------- validate_rules
validate_rule(rule) ==
    IF ~rule.dict THEN "InvalidRuleFormatError"
    ELSE IF rule.id = 0 THEN "TypeKeyMissingError"
    ELSE IF rule.type = "" THEN "PatternKeyMissingError"
    ELSE IF rule.choice_type = "" THEN "PatternKeyMissingError"
    ELSE IF rule.selection = "" THEN "PatternKeyMissingError"
    ELSE IF rule.choice = <<>> THEN "PatternKeyMissingError"
    ELSE "ok"

\* faulty variant: the loop returns after its first iteration
validate_rules_first(rules) ==
    IF rules = <<>> THEN "ok" ELSE validate_rule(rules[1])

\* The exception of the first rule that fails, "ok" when the loop ends.
validate_rules(rules) ==
    LET bad == {i \in DOMAIN rules : validate_rule(rules[i]) # "ok"}
    IN  IF bad = {} THEN "ok" ELSE validate_rule(rules[SetMin(bad)])

\* ------------------------------------------------------- choice_matcher
\* faulty variant: integer division
OversizeFloor(size) == (size \div 1000) \div 1000 > MaxSizeMB

\* st_size / 1000 / 1000 > 5, in true division
Oversize(size) == size > MaxSizeMB * 1000 * 1000

ExtSkipped(f) == exts # {} /\ Lower(fs[f].ext) \notin exts

\* if match:
Truthy(m) ==
    \/ m.kind = "set" /\ m.toks # {}
    \/ m.kind = "list" /\ m.idxs # <<>>

\* the decimal form of an index
IdxName(i) ==
    CASE i = 0 -> "0" [] i = 1 -> "1" [] i = 2 -> "2" [] i = 3 -> "3" [] OTHER -> "n"

\* faulty variant: all_matches.update(match) whatever match is
NewAllMatchesAny(all_matches, m) ==
    all_matches \cup m.toks \cup {IdxName(m.idxs[k]) : k \in DOMAIN m.idxs}

\* if isinstance(match, set): all_matches.update(match)
NewAllMatches(all_matches, m) ==
    IF m.kind = "set" THEN all_matches \cup m.toks ELSE all_matches

\* faulty variant: matches is rebound to a fresh set for every file
NewMatchesFresh(matches, m) ==
    IF m.kind = "list" THEN {m.idxs[1]} ELSE {}

\* elif isinstance(match, list): matches.add(match[0])
NewMatches(matches, m) ==
    IF m.kind = "list" THEN matches \cup {m.idxs[1]} ELSE matches

\* The list results after an append: every record holds the two set
\* objects of the frame themselves, so all n records show their current
\* contents.
Records(rule, n, matches, all_matches) ==
    [i \in 1..n |-> [rule |-> rule, matches |-> matches, all_matches |-> all_matches]]

NewFrame == [st |-> "pending", fi |-> 0, matches |-> {}, all_matches |-> {},
             results |-> <<>>]

\* faulty variant: except Exception: pass, and the results so far are returned
except_pass(fr) == [fr EXCEPT !.st = "done"]

\* except Exception: raise exceptions.RuleProcessingError(...)
except_clause(fr) == [fr EXCEPT !.st = "raised", !.results = <<>>]

\* One iteration of "for sfile in scan_paths" on file f, in frame fr, when
\* find_choices answers m (if it is called at all).  n is
\* len(scan_paths).  fr: the frame after it; statted, called: whether
\* stat() resp. find_choices() was called; raised: whether the body raised.
choice_matcher_file(fr, f, n, rule, m) ==
    LET nxt(g) == IF g.fi + 1 = n THEN [g EXCEPT !.fi = n, !.st = "done"]
                  ELSE [g EXCEPT !.fi = g.fi + 1]
        out(g, s, c, r) == [fr |-> g, statted |-> s, called |-> c, raised |-> r]
    IN  IF ExtSkipped(f) THEN out(nxt(fr), FALSE, FALSE, FALSE)
        ELSE IF fs[f].io = "stat" THEN out(except_clause(fr), TRUE, FALSE, TRUE)
        ELSE IF Oversize(fs[f].size) THEN out(nxt(fr), TRUE, FALSE, FALSE)
        ELSE IF fs[f].io = "read" THEN out(except_clause(fr), TRUE, FALSE, TRUE)
        ELSE IF m.kind = "raise" THEN out(except_clause(fr), TRUE, TRUE, TRUE)
        ELSE IF m.kind = "hang" THEN out([fr EXCEPT !.st = "hung"], TRUE, TRUE, FALSE)
        ELSE IF Truthy(m) THEN
            LET ms == NewMatches(fr.matches, m)
                am == NewAllMatches(fr.all_matches, m)
            IN  out(nxt([fr EXCEPT !.matches = ms, !.all_matches = am,
                                   !.results = Records(rule, Len(fr.results) + 1, ms, am)]),
                    TRUE, TRUE, FALSE)
        ELSE out(nxt(fr), TRUE, TRUE, FALSE)

\* ---------------------------------------------------------- add_finding
PyStr(s) == [py |-> "str", items |-> <<s>>]
PyList(q) == [py |-> "list", items |-> q]
\* template.format(v): the template and what fills its slot
Format(template, v) == [template |-> template, arg |-> v]

TokenOrders == {o \in [1..Cardinality(Tokens) -> Tokens] : Injective(o)}
\* list(all_matches): the elements of the set, in the order ord iterates
Listing(S, ord) == SelectSeq(ord, LAMBDA x : x \in S)

\* faulty variant: max(matches)
PyMinAsMax(S) == SetMax(S)

\* min(matches)
PyMin(S) == SetMin(S)

get_meta(rule, selection) ==
    [choice |-> selection, description |-> rule.message, severity |-> rule.severity]

Put(fnd, id, meta) ==
    [k \in DOMAIN fnd \cup {id} |-> IF k = id THEN meta ELSE fnd[k]]

\* The if/elif chain of add_finding on one record.
selection_of(md, ord) ==
    LET rule == md.rule
        res(k, v) == [kind |-> k, value |-> v]
    IN  IF md.all_matches # {}
        THEN res("sel", Format(rule.selection, PyList(Listing(md.all_matches, ord))))
        ELSE IF md.matches # {}
        THEN IF PyMin(md.matches) + 1 \in DOMAIN rule.choice
             THEN res("sel", Format(rule.selection, PyStr(rule.choice[PyMin(md.matches) + 1][2])))
             ELSE res("IndexError", Format("", PyStr("")))
        ELSE IF rule.else # ""
        THEN res("sel", Format(rule.selection, PyStr(rule.else)))
        ELSE res("skip", Format("", PyStr("")))

RECURSIVE Flatten(_)
Flatten(rs) == IF rs = <<>> THEN <<>> ELSE Head(rs) \o Flatten(Tail(rs))

\* The inner loop over the records recs, from findings fnd: the findings
\* after it and the exception it ended with.
RECURSIVE add_finding_loop(_, _, _)
add_finding_loop(fnd, recs, ord) ==
    IF recs = <<>> THEN [findings |-> fnd, err |-> "ok"]
    ELSE LET md == Head(recs)
             s == selection_of(md, ord)
         IN  IF s.kind = "skip" THEN add_finding_loop(fnd, Tail(recs), ord)
             ELSE IF s.kind = "IndexError" THEN [findings |-> fnd, err |-> "IndexError"]
             ELSE IF ~md.rule.hasmsg THEN [findings |-> fnd, err |-> "KeyError"]
             ELSE add_finding_loop(Put(fnd, md.rule.id, get_meta(md.rule, s.value)),
                                   Tail(recs), ord)

add_finding(fnd, results, ord) == add_finding_loop(fnd, Flatten(results), ord)

\* ------------------------------------------------------------- the pool
\* faulty variant: chunksize=1, every task is its own batch
ChunkOfSingle(t) == t

\* Pool._get_tasks with chunksize=10: task t (1-based, in submission order)
\* is in batch ChunkOf(t); a batch goes to one worker, which runs its tasks
\* in order.
ChunkOf(t) == ((t - 1) \div ChunkSize) + 1

ChunkTasks(c, n) == {t \in 1..n : ChunkOf(t) = c}
Idle == [chunk |-> 0, pos |-> 0]

\* ------------------------------------------------------------------ Init
NewObs(fnd, n) ==
    [findings0 |-> fnd, touched |-> {}, invoked |-> {}, raised |-> FALSE,
     seen |-> [t \in 1..n |-> [idx |-> {}, tok |-> {}]],
     execCount |-> [t \in 1..n |-> 0]]

NoRet == [none |-> TRUE, map |-> EmptyMap]

\* The state after __init__(options), in an environment of the given sets.
InitWith(Rules, Fs, ExtOpts, AltOpts, Envs, Workers, scans) ==
    /\ scan_rules \in Rules
    /\ fs \in Fs
    /\ options \in [choice_extensions : ExtOpts, alternative_path : AltOpts]
    /\ options.alternative_path \in {0} \cup DOMAIN fs
    /\ exts = {Lower(e) : e \in options.choice_extensions}
    /\ alternative_path = options.alternative_path
    /\ findings = EmptyMap
    /\ env \in Envs
    /\ worker_count \in Workers
    /\ scansLeft = scans
    /\ pc = "idle"
    /\ paths = <<>>
    /\ choice_args = <<>>
    /\ err = "ok"
    /\ ret = NoRet
    /\ queue = <<>>
    /\ chunkst = <<>>
    /\ worker = [w \in 1..worker_count |-> Idle]
    /\ task = [t \in DOMAIN scan_rules |-> NewFrame]
    /\ obs = NewObs(EmptyMap, Len(scan_rules))

PlainFs == {[f \in 1..MaxFiles |-> PlainFile]}
OneFaultyFs == {[f \in 1..MaxFiles |-> IF f = 1 THEN k ELSE PlainFile] : k \in FaultyFiles}
MkEnv(match, hang) == [match |-> match, hang |-> hang]

\* One or more valid rules, every matcher answer, one invocation.
Init ==
    InitWith(RuleSeqs(ChoiceShapes, 1, MaxChoiceRules), PlainFs, {{}}, {0},
             {MkEnv({NoMatch} \cup ListMatches \cup SetMatches, 0)}, {1}, 1)

\* Rules of every shape, valid or not.
InitRules ==
    InitWith(RuleSeqs(RuleShapes, 0, MaxRules), PlainFs, {{}}, {0},
             {MkEnv({NoMatch, MkMatch("list", {}, <<0>>)}, 0)}, {1}, 1)

\* Valid rules; stat(), read_text() and the matcher may raise; several
\* invocations.
InitFaults ==
    InitWith(RuleSeqs({GoodRule("code", "")}, 1, MaxRules), OneFaultyFs, {{}}, {0},
             {MkEnv({NoMatch, MkMatch("list", {}, <<0>>), Raises}, 0)}, {1}, MaxScans)

\* Several invocations on one matcher, with and without alternative_path.
InitScans ==
    InitWith(RuleSeqs(ScanShapes, 1, MaxChoiceRules), PlainFs, {{}}, {0, 1},
             {MkEnv({NoMatch, MkMatch("list", {}, <<0>>), MkMatch("set", {"a"}, <<>>)}, 0)},
             {1}, MaxScans)

\* Files of every extension and size, every allow-list.
InitFilter ==
    InitWith({<<GoodRule("code", "")>>}, [1..MaxFiles -> FileKinds],
             {{}, {".JAVA"}}, {0},
             {MkEnv({NoMatch, MkMatch("list", {}, <<0>>)}, 0)},
             {1}, 1)

\* More rules than one batch holds; the matcher hangs on at most one rule.
InitPool ==
    InitWith(RuleSeqs({GoodRule("code", "")}, MaxPoolRules, MaxPoolRules),
             {[f \in 1..1 |-> PlainFile]}, {{}}, {0},
             {MkEnv({MkMatch("list", {}, <<0>>)}, h) : h \in 0..MaxPoolRules},
             1..MaxWorkers, 1)

\* --------------------------------------------------------------- actions
\* The lists of distinct files a caller may pass.
PathSeqs ==
    UNION { {p \in [1..k -> DOMAIN fs] : Injective(p)} : k \in 0..Cardinality(DOMAIN fs) }

\* What find_choices may answer for rule t.
Answers(t) == IF t = env.hang THEN {Hangs} ELSE env.match

\* scan(paths) is called: "if not (self.scan_rules and paths): return".
Scan(p) ==
    /\ pc \in {"idle", "returned", "failed"}
    /\ scansLeft > 0
    /\ scansLeft' = scansLeft - 1
    /\ paths' = p
    /\ choice_args' = <<>>
    /\ err' = "ok"
    /\ ret' = NoRet
    /\ queue' = <<>>
    /\ chunkst' = <<>>
    /\ worker' = [w \in 1..worker_count |-> Idle]
    /\ task' = [t \in DOMAIN scan_rules |-> NewFrame]
    /\ obs' = NewObs(findings, Len(scan_rules))
    /\ pc' = IF scan_rules # <<>> /\ p # <<>> THEN "validate" ELSE "returned"
    /\ UNCHANGED <<options, scan_rules, exts, alternative_path, findings, fs, env,
                   worker_count>>

\* self.validate_rules()
Validate ==
    /\ pc = "validate"
    /\ err' = validate_rules(scan_rules)
    /\ pc' = IF err' = "ok" THEN "build" ELSE "failed"
    /\ UNCHANGED <<options, scan_rules, exts, alternative_path, findings, fs, env,
                   worker_count, scansLeft, paths, choice_args, ret, queue, chunkst,
                   worker, task, obs>>

\* rule['type'] of a rule that is no dict, or has no such key
TypeLookup(rule) ==
    IF ~rule.dict THEN "TypeError" ELSE IF rule.type = "" THEN "KeyError" ELSE "ok"

\* The loop that fills choice_args.
Build ==
    /\ pc = "build"
    /\ LET bad == {i \in DOMAIN scan_rules : TypeLookup(scan_rules[i]) # "ok"}
       IN  IF bad # {}
           THEN /\ err' = TypeLookup(scan_rules[SetMin(bad)])
                /\ pc' = "failed"
                /\ UNCHANGED choice_args
           ELSE /\ choice_args' =
                      [i \in DOMAIN scan_rules |->
                          IF scan_rules[i].type # "code" /\ alternative_path # 0
                          THEN <<alternative_path>> ELSE paths]
                /\ pc' = "start"
                /\ UNCHANGED err
    /\ UNCHANGED <<options, scan_rules, exts, alternative_path, findings, fs, env,
                   worker_count, scansLeft, paths, ret, queue, chunkst, worker, task, obs>>

\* Pool(worker_count) and the dispatch of starmap: one batch of tasks per
\* chunk, queued in order.
PoolStart ==
    /\ pc = "start"
    /\ LET nc == ChunkOf(Len(choice_args))
       IN  /\ queue' = [c \in 1..nc |-> c]
           /\ chunkst' = [c \in 1..nc |-> "queued"]
    /\ pc' = "pool"
    /\ UNCHANGED <<options, scan_rules, exts, alternative_path, findings, fs, env,
                   worker_count, scansLeft, paths, choice_args, err, ret, worker, task, obs>>

\* Task t starts: choice_matcher(scan_paths, rule) is entered.
Started(tk, t) == [tk EXCEPT ![t].st = "running"]

\* An idle worker takes the next batch and enters its first task.
TakeChunk(w) ==
    /\ pc = "pool"
    /\ w \in DOMAIN worker
    /\ worker[w].chunk = 0
    /\ queue # <<>>
    /\ LET c == Head(queue)
           t == SetMin(ChunkTasks(c, Len(choice_args)))
       IN  /\ worker' = [worker EXCEPT ![w] = [chunk |-> c, pos |-> t]]
           /\ chunkst' = [chunkst EXCEPT ![c] = "running"]
           /\ task' = Started(task, t)
           /\ obs' = [obs EXCEPT !.execCount[t] = @ + 1]
    /\ queue' = Tail(queue)
    /\ UNCHANGED <<options, scan_rules, exts, alternative_path, findings, fs, env,
                   worker_count, scansLeft, pc, paths, choice_args, err, ret>>

\* A worker runs one iteration of its task's loop over scan_paths.  When
\* the task returns the worker enters the next task of its batch, or
\* reports the batch; when it raises the worker reports the batch failed
\* and leaves the batch's remaining tasks.
ScanFile(w) ==
    /\ pc = "pool"
    /\ w \in DOMAIN worker
    /\ worker[w].chunk # 0
    /\ task[worker[w].pos].st = "running"
    /\ \E m \in Answers(worker[w].pos) :
        LET c == worker[w].chunk
            t == worker[w].pos
            n == Len(choice_args[t])
            f == choice_args[t][task[t].fi + 1]
            r == choice_matcher_file(task[t], f, n, scan_rules[t], m)
            last == t = SetMax(ChunkTasks(c, Len(choice_args)))
            o1 == [obs EXCEPT
                     !.touched = IF r.statted THEN @ \cup {f} ELSE @,
                     !.invoked = IF r.called THEN @ \cup {<<t, f>>} ELSE @,
                     !.raised = @ \/ r.raised,
                     !.seen[t] = IF r.called /\ Truthy(m)
                                 THEN [idx |-> IF m.kind = "list" THEN @.idx \cup {m.idxs[1]} ELSE @.idx,
                                       tok |-> IF m.kind = "set" THEN @.tok \cup m.toks ELSE @.tok]
                                 ELSE @]
        IN  CASE r.fr.st = "raised" ->
                    /\ task' = [task EXCEPT ![t] = r.fr]
                    /\ chunkst' = [chunkst EXCEPT ![c] = "err"]
                    /\ worker' = [worker EXCEPT ![w] = Idle]
                    /\ obs' = o1
              [] r.fr.st = "done" /\ last ->
                    /\ task' = [task EXCEPT ![t] = r.fr]
                    /\ chunkst' = [chunkst EXCEPT ![c] = "ok"]
                    /\ worker' = [worker EXCEPT ![w] = Idle]
                    /\ obs' = o1
              [] r.fr.st = "done" /\ ~last ->
                    /\ task' = Started([task EXCEPT ![t] = r.fr], t + 1)
                    /\ worker' = [worker EXCEPT ![w].pos = t + 1]
                    /\ obs' = [o1 EXCEPT !.execCount[t + 1] = @ + 1]
                    /\ UNCHANGED chunkst
              [] OTHER ->
                    /\ task' = [task EXCEPT ![t] = r.fr]
                    /\ obs' = o1
                    /\ UNCHANGED <<worker, chunkst>>
    /\ UNCHANGED <<options, scan_rules, exts, alternative_path, findings, fs, env,
                   worker_count, scansLeft, pc, paths, choice_args, err, ret, queue>>

\* starmap returns once every batch is reported, or raises as soon as one
\* batch is reported failed; leaving the with block terminates the pool.
\* Then self.add_finding(results) and return self.findings.
Collect ==
    /\ pc = "pool"
    /\ \/ \E c \in DOMAIN chunkst : chunkst[c] = "err"
       \/ \A c \in DOMAIN chunkst : chunkst[c] = "ok"
    /\ IF \E c \in DOMAIN chunkst : chunkst[c] = "err"
       THEN /\ err' = "RuleProcessingError"
            /\ pc' = "failed"
            /\ UNCHANGED <<findings, ret>>
       ELSE \E ord \in TokenOrders :
              LET a == add_finding(findings, [t \in DOMAIN task |-> task[t].results], ord)
              IN  /\ findings' = a.findings
                  /\ err' = a.err
                  /\ pc' = IF a.err = "ok" THEN "returned" ELSE "failed"
                  /\ ret' = IF a.err = "ok" THEN [none |-> FALSE, map |-> a.findings] ELSE ret
    /\ UNCHANGED <<options, scan_rules, exts, alternative_path, fs, env, worker_count,
                   scansLeft, paths, choice_args, queue, chunkst, worker, task, obs>>

Next ==
    \/ \E p \in PathSeqs : Scan(p)
    \/ Validate
    \/ Build
    \/ PoolStart
    \/ \E w \in 1..MaxWorkers : TakeChunk(w)
    \/ \E w \in 1..MaxWorkers : ScanFile(w)
    \/ Collect

\* The parent and the worker processes all keep running.
Fairness ==
    /\ WF_vars(Validate)
    /\ WF_vars(Build)
    /\ WF_vars(PoolStart)
    /\ \A w \in 1..MaxWorkers : WF_vars(TakeChunk(w)) /\ WF_vars(ScanFile(w))
    /\ WF_vars(Collect)

Spec == Init /\ [][Next]_vars
SpecRules == InitRules /\ [][Next]_vars
SpecFaults == InitFaults /\ [][Next]_vars
SpecScans == InitScans /\ [][Next]_vars
SpecFilter == InitFilter /\ [][Next]_vars
SpecPool == InitPool /\ [][Next]_vars /\ Fairness

\* ================================================================ claims
RuleOf(t) == scan_rules[t]
Returned == pc = "returned" /\ ~ret.none
NoneSeen(t) == obs.seen[t].idx = {} /\ obs.seen[t].tok = {}

\* C1: a rule with a truthy else for which no scanned file produced a match
\* (matches and all_matches stayed empty) is in the mapping scan() returns,
\* its choice being selection formatted with the else label.
C1_ElseDefaultReported ==
    Returned =>
        \A t \in DOMAIN scan_rules :
            (RuleOf(t).else # "" /\ NoneSeen(t)
                /\ task[t].matches = {} /\ task[t].all_matches = {})
            => /\ RuleOf(t).id \in DOMAIN ret.map
               /\ ret.map[RuleOf(t).id].choice
                    = Format(RuleOf(t).selection, PyStr(RuleOf(t).else))

\* C2: the mapping an invocation returns depends only on that invocation's
\* files: a rule with no else for which no file of the current invocation
\* matched is absent from it, whatever earlier invocations found.
C2_AbsentWithoutMatch ==
    Returned =>
        \A t \in DOMAIN scan_rules :
            (RuleOf(t).else = "" /\ NoneSeen(t)) => RuleOf(t).id \notin DOMAIN ret.map

\* The indices the matcher answered for rule t that exist in its choice.
ValidIdx(t) == {i \in obs.seen[t].idx : i + 1 \in DOMAIN RuleOf(t).choice}

\* C3: for a rule whose files yielded only lists (all_matches empty, matches
\* not), the finding's label is the label at the smallest index among the
\* matched indices that exist in choice, whatever the order of the files.
C3_SmallestIndexLabel ==
    Returned =>
        \A t \in DOMAIN scan_rules :
            (obs.seen[t].tok = {} /\ ValidIdx(t) # {})
            => /\ RuleOf(t).id \in DOMAIN ret.map
               /\ ret.map[RuleOf(t).id].choice
                    = Format(RuleOf(t).selection,
                             PyStr(RuleOf(t).choice[SetMin(ValidIdx(t)) + 1][2]))

\* Two files of one rule matched different indices, both in choice.
C3_Witness ==
    /\ Returned
    /\ \E t \in DOMAIN scan_rules :
        obs.seen[t].tok = {} /\ Cardinality(ValidIdx(t)) >= 2

\* The first required key, in the order id, type, choice_type, selection,
\* choice, that rule r lacks.
FirstMissing(r) ==
    IF ~r.dict THEN "format"
    ELSE IF r.id = 0 THEN "id"
    ELSE IF r.type = "" THEN "type"
    ELSE IF r.choice_type = "" THEN "choice_type"
    ELSE IF r.selection = "" THEN "selection"
    ELSE IF r.choice = <<>> THEN "choice"
    ELSE "none"
RuleOk(r) == FirstMissing(r) = "none"
AnyInvalid == \E i \in DOMAIN scan_rules : ~RuleOk(scan_rules[i])
FirstInvalid == scan_rules[SetMin({i \in DOMAIN scan_rules : ~RuleOk(scan_rules[i])})]
IdKind == validate_rule(MkRule(TRUE, 0, "code", "or", Template, Choices, TRUE, ""))

\* C4: the error kind of the first invalid rule is specific to its first
\* missing key: no id, no type, and no choice_type/selection/choice give
\* three different kinds, the last the pattern-key-missing kind; a rule that
\* is no dict gives the format-invalid kind.
C4_KindPerMissingField ==
    (pc = "failed" /\ AnyInvalid) =>
        LET k == FirstMissing(FirstInvalid)
        IN  /\ k = "format" => err = "InvalidRuleFormatError"
            /\ k \in {"choice_type", "selection", "choice"} => err = "PatternKeyMissingError"
            /\ k = "id" => err \notin {"InvalidRuleFormatError", "PatternKeyMissingError"}
            /\ k = "type" => err \notin {"InvalidRuleFormatError", "PatternKeyMissingError", IdKind}

\* C5: with rules and paths non-empty, an invalid rule anywhere in the
\* sequence makes the invocation fail before any task is built, any file is
\* stat'ed or read and any worker has started, the findings unchanged.
C5_ValidationBeforeScanning ==
    (pc # "idle" /\ scan_rules # <<>> /\ paths # <<>> /\ AnyInvalid) =>
        /\ pc \in {"validate", "failed"}
        /\ choice_args = <<>>
        /\ obs.touched = {} /\ obs.invoked = {}
        /\ queue = <<>> /\ chunkst = <<>>
        /\ \A w \in DOMAIN worker : worker[w] = Idle
        /\ \A t \in DOMAIN task : task[t].st = "pending" /\ obs.execCount[t] = 0
        /\ findings = obs.findings0
        /\ pc = "failed" => err # "ok"

\* The scan failed on its last rule, the rules before it being valid.
C5_Witness ==
    /\ pc = "failed" /\ paths # <<>>
    /\ Len(scan_rules) >= 2
    /\ ~RuleOk(scan_rules[Len(scan_rules)])
    /\ \A i \in 1..(Len(scan_rules) - 1) : RuleOk(scan_rules[i])

\* C6: once the scanning of one rule's files has raised, the task has failed
\* and scan() can only fail, with a rule-processing error: add_finding is
\* not run, nothing is returned and the findings stay as they were before
\* the invocation.
C6_ProcessingErrorIsFatal ==
    obs.raised =>
        /\ pc \in {"pool", "failed"}
        /\ \E t \in DOMAIN task : task[t].st = "raised"
        /\ \E c \in DOMAIN chunkst : chunkst[c] = "err"
        /\ pc = "failed" => err = "RuleProcessingError"
        /\ ret = NoRet
        /\ findings = obs.findings0

\* A scan on a matcher that holds findings failed after one rule's task had
\* returned matches and another rule's task had raised.
C6_Witness ==
    /\ pc = "failed" /\ obs.raised
    /\ DOMAIN findings # {}
    /\ \E t \in DOMAIN task : task[t].st = "done" /\ task[t].results # <<>>

ExtAllowed(f) ==
    \/ options.choice_extensions = {}
    \/ Lower(fs[f].ext) \in {Lower(e) : e \in options.choice_extensions}
SizeAllowed(f) == fs[f].size <= MaxSizeMB * 1000 * 1000
\* f fails the extension test, or stat() answers a size above 5 MB
FailsFilter(f) == ~ExtAllowed(f) \/ (fs[f].io # "stat" /\ ~SizeAllowed(f))
NextFile(t) == choice_args[t][task[t].fi + 1]

\* C7: find_choices is called on a file only if its lower-cased extension
\* passes the lower-cased allow-list (or the list is empty) and its size is
\* at most 5 MB; the iteration on a file failing either test changes
\* neither matches, all_matches nor the records, and raises nothing.
C7_FilterBeforeMatcher ==
    /\ [](\A c \in obs.invoked : ExtAllowed(c[2]) /\ SizeAllowed(c[2]))
    /\ [][\A t \in DOMAIN task :
            (task[t].st = "running" /\ task'[t] # task[t] /\ FailsFilter(NextFile(t)))
            => /\ task'[t].st \in {"running", "done"}
               /\ task'[t].fi = task[t].fi + 1
               /\ task'[t].matches = task[t].matches
               /\ task'[t].all_matches = task[t].all_matches
               /\ task'[t].results = task[t].results
               /\ obs'.invoked = obs.invoked
               /\ obs'.raised = obs.raised]_vars

\* A scan has passed over a file of each kind: one outside the allow-list,
\* one above 5 MB, and one that went to the matcher and matched.
C7_Witness ==
    /\ pc = "returned" /\ Len(paths) >= 2
    /\ \E t \in DOMAIN task :
        /\ task[t].st = "done" /\ task[t].results # <<>>
        /\ \E i \in DOMAIN paths : FailsFilter(paths[i])
        /\ \E i \in DOMAIN paths : <<t, paths[i]>> \in obs.invoked

\* Whether task t can never run because of the hanging scan: it is the
\* hanging task, it follows it in its batch of ChunkSize, or the only
\* worker is the one that hangs and t comes later.
Stalled(t) ==
    /\ env.hang # 0
    /\ \/ t = env.hang
       \/ t > env.hang /\ (t - 1) \div ChunkSize = (env.hang - 1) \div ChunkSize
       \/ t > env.hang /\ worker_count = 1
Completed(t) == task[t].st = "done" /\ obs.execCount[t] = 1

OnePopulated(m, a) == m = {} \/ a = {}
FrameOnePopulated(t) ==
    /\ OnePopulated(task[t].matches, task[t].all_matches)
    /\ \A i \in DOMAIN task[t].results :
        OnePopulated(task[t].results[i].matches, task[t].results[i].all_matches)

\* C9: at every point of a rule's scan, and in every record appended for it,
\* at most one of matches and all_matches is non-empty, whatever the matcher
\* answers for the rule's files.
C9_AtMostOnePopulated == \A t \in DOMAIN task : FrameOnePopulated(t)

\* C9, amended: that holds as long as the matcher's answers for the rule's
\* files are all sets or all lists.
C9_OnePopulatedWhenUniform ==
    \A t \in DOMAIN task :
        (obs.seen[t].idx = {} \/ obs.seen[t].tok = {}) => FrameOnePopulated(t)

\* Two files of one rule matched, both with lists.
C9_Witness ==
    \E t \in DOMAIN task :
        /\ Len(task[t].results) >= 2
        /\ task[t].matches # {} /\ task[t].all_matches = {}

\* The choices the reduction of rule t's complete match state may give.
Reduced(t) ==
    IF obs.seen[t].tok # {}
    THEN {Format(RuleOf(t).selection, PyList(Listing(obs.seen[t].tok, o))) : o \in TokenOrders}
    ELSE {Format(RuleOf(t).selection, PyStr(RuleOf(t).choice[i + 1][2])) :
            i \in {j \in {SetMin(obs.seen[t].idx)} : j + 1 \in DOMAIN RuleOf(t).choice}}

\* C10: among the records of one rule, a later record's matches and
\* all_matches include every earlier record's; the finding stored after
\* add_finding is the reduction of the rule's match state over all its
\* scanned files.
C10_LastRecordIsComplete ==
    /\ \A t \in DOMAIN task : \A i, j \in DOMAIN task[t].results :
        i < j => /\ task[t].results[i].matches \subseteq task[t].results[j].matches
                 /\ task[t].results[i].all_matches \subseteq task[t].results[j].all_matches
    /\ Returned =>
        \A t \in DOMAIN scan_rules :
            ~NoneSeen(t) => /\ RuleOf(t).id \in DOMAIN findings
                            /\ findings[RuleOf(t).id].choice \in Reduced(t)
                            /\ findings[RuleOf(t).id].description = RuleOf(t).message

\* A rule's files contributed different tokens or indices, one file each.
C10_Witness ==
    /\ Returned
    /\ \E t \in DOMAIN scan_rules :
        /\ Len(task[t].results) >= 2
        /\ Cardinality(obs.seen[t].idx) >= 2 \/ Cardinality(obs.seen[t].tok) >= 2
====
